---- MODULE Spec2Model ----
(***************************************************************************)
(* Model of the groupchat-wrapped front end (src/src/App.js): the chart    *)
(* dataset assembler buildChartDataSets with its helpers, and the App      *)
(* component's state (phase, payload, cursor, debounce flag, requests in   *)
(* flight) with one action per event handler or asynchronous continuation. *)
(***************************************************************************)
EXTENDS Integers, Sequences, FiniteSets, TLC

(***************************************************************************)
(* Bounds of the model.                                                    *)
(***************************************************************************)
\* longest row list of a metric in an assembler input
MaxRows == 2
\* longest day_summaries list in an assembler input
MaxDays == 2

(***************************************************************************)
(* JavaScript values.  An object is a record carrying shape = "object" and *)
(* the fields it has; a missing key reads as undefined.                    *)
(***************************************************************************)
Null == [shape |-> "null"]
Undefined == [shape |-> "undefined"]
UndefinedStr == "undefined"

\* obj.field of a JS object: undefined when the field is missing
HasField(obj, field) == field \in DOMAIN obj

\* obj.field raises a TypeError exactly when obj is null or undefined
ThrowsOnAccess(obj) == obj.shape \in {"null", "undefined"}

(***************************************************************************)
(* Helper functions, App.js lines 128-225.                                 *)
(***************************************************************************)
\* a check that accepts the empty array
isValidArrayOrEmpty(obj, field) == HasField(obj, field)

\* record.data as seen by isValidArray: an array with at least one element
isValidArray(obj, field) == HasField(obj, field) /\ Len(obj[field]) > 0

\* safeGet(obj, path, defaultValue) for a one-part path
safeGet(obj, path, defaultValue) ==
  IF HasField(obj, path) THEN obj[path] ELSE defaultValue

RECURSIVE InsertDesc(_, _)
\* position of pair p in the already sorted list s: after every pair whose
\* value is greater than or equal to p's (comparator b[1] - a[1], stable)
InsertDesc(s, p) ==
  IF s = <<>> THEN <<p>>
  ELSE IF s[1][2] >= p[2] THEN <<s[1]>> \o InsertDesc(Tail(s), p)
  ELSE <<p>> \o s

RECURSIVE SortPairs(_)
SortPairs(pairs) ==
  IF pairs = <<>> THEN <<>>
  ELSE InsertDesc(SortPairs(SubSeq(pairs, 1, Len(pairs) - 1)), pairs[Len(pairs)])

\* a sort that orders the values and leaves the labels in row order
sortBarDataValuesOnly(labels, data) ==
  IF Len(labels) = 0 \/ Len(data) = 0 \/ Len(labels) # Len(data)
  THEN [sortedLabels |-> labels, sortedData |-> data]
  ELSE LET pairs == [i \in 1..Len(labels) |-> <<labels[i], data[i]>>]
           sorted == SortPairs(pairs)
       IN [sortedLabels |-> labels,
           sortedData   |-> [i \in 1..Len(sorted) |-> sorted[i][2]]]

\* a sort that puts the later of two rows with equal values first
sortBarDataTiesReversed(labels, data) ==
  IF Len(labels) = 0 \/ Len(data) = 0 \/ Len(labels) # Len(data)
  THEN [sortedLabels |-> labels, sortedData |-> data]
  ELSE LET n == Len(labels)
           pairs == [i \in 1..n |-> <<labels[n + 1 - i], data[n + 1 - i]>>]
           sorted == SortPairs(pairs)
       IN [sortedLabels |-> [i \in 1..Len(sorted) |-> sorted[i][1]],
           sortedData   |-> [i \in 1..Len(sorted) |-> sorted[i][2]]]

sortBarData(labels, data) ==
  IF Len(labels) = 0 \/ Len(data) = 0 \/ Len(labels) # Len(data)
  THEN [sortedLabels |-> labels, sortedData |-> data]
  ELSE LET pairs == [i \in 1..Len(labels) |-> <<labels[i], data[i]>>]
           sorted == SortPairs(pairs)
       IN [sortedLabels |-> [i \in 1..Len(sorted) |-> sorted[i][1]],
           sortedData   |-> [i \in 1..Len(sorted) |-> sorted[i][2]]]

\* hue of colour i out of count: i * (360 / count), kept as a fraction
generateDistinctColors(count) ==
  [i \in 1..count |-> [hue |-> <<(i - 1) * 360, count>>]]

RECURSIVE Unique(_)
\* [...new Set(s)]: first occurrences, in order
Unique(s) ==
  IF s = <<>> THEN <<>>
  ELSE LET init == Unique(SubSeq(s, 1, Len(s) - 1))
           last == s[Len(s)]
       IN IF \E i \in 1..Len(init) : init[i] = last THEN init ELSE Append(init, last)

RECURSIVE Filter(_, _)
Filter(s, keep) ==
  IF s = <<>> THEN <<>>
  ELSE IF s[1] \in keep THEN <<s[1]>> \o Filter(Tail(s), keep)
  ELSE Filter(Tail(s), keep)

\* the date strings the model uses, in the order of String.prototype.sort
DateOrder == <<"2024-Q1", "2024-Q2", "2024-Q3">>
DateRank(d) == CHOOSE i \in 1..Len(DateOrder) : DateOrder[i] = d

RECURSIVE InsertDate(_, _)
InsertDate(s, d) ==
  IF s = <<>> THEN <<d>>
  ELSE IF DateRank(s[1]) <= DateRank(d) THEN <<s[1]>> \o InsertDate(Tail(s), d)
  ELSE <<d>> \o s

RECURSIVE SortDates(_)
SortDates(s) ==
  IF s = <<>> THEN <<>>
  ELSE InsertDate(SortDates(SubSeq(s, 1, Len(s) - 1)), s[Len(s)])

\* a grouping that leaves the dates in the order of their first occurrence
groupBySenderUnsorted(data, dateField, valueField) ==
  IF Len(data) = 0 THEN [dates |-> <<>>, datasets |-> <<>>]
  ELSE
    LET allSenders == [i \in 1..Len(data) |-> safeGet(data[i], "sender", "")]
        allDates   == [i \in 1..Len(data) |-> safeGet(data[i], dateField, "")]
        senders == Filter(Unique(allSenders), {x \in {allSenders[i] : i \in 1..Len(data)} : x # ""})
        dates   == Filter(Unique(allDates), {x \in {allDates[i] : i \in 1..Len(data)} : x # ""})
        colors  == generateDistinctColors(Len(senders))
        valueAt(sender, dt) ==
          LET hits == {i \in 1..Len(data) : allSenders[i] = sender /\ allDates[i] = dt}
          IN IF hits = {} THEN 0
             ELSE safeGet(data[CHOOSE i \in hits : \A j \in hits : i <= j], valueField, 0)
    IN [dates |-> dates,
        datasets |-> [s \in 1..Len(senders) |->
                        [label |-> senders[s],
                         data  |-> [d \in 1..Len(dates) |-> valueAt(senders[s], dates[d])],
                         color |-> colors[s]]]]

groupBySender(data, dateField, valueField) ==
  IF Len(data) = 0 THEN [dates |-> <<>>, datasets |-> <<>>]
  ELSE
    LET allSenders == [i \in 1..Len(data) |-> safeGet(data[i], "sender", "")]
        allDates   == [i \in 1..Len(data) |-> safeGet(data[i], dateField, "")]
        senders == Filter(Unique(allSenders), {x \in {allSenders[i] : i \in 1..Len(data)} : x # ""})
        dates   == SortDates(Filter(Unique(allDates), {x \in {allDates[i] : i \in 1..Len(data)} : x # ""}))
        colors  == generateDistinctColors(Len(senders))
        valueAt(sender, dt) ==
          LET hits == {i \in 1..Len(data) : allSenders[i] = sender /\ allDates[i] = dt}
          IN IF hits = {} THEN 0
             ELSE safeGet(data[CHOOSE i \in hits : \A j \in hits : i <= j], valueField, 0)
    IN [dates |-> dates,
        datasets |-> [s \in 1..Len(senders) |->
                        [label |-> senders[s],
                         data  |-> [d \in 1..Len(dates) |-> valueAt(senders[s], dates[d])],
                         color |-> colors[s]]]]

(***************************************************************************)
(* The assembler, App.js lines 612-873.                                    *)
(***************************************************************************)
\* a try body whose day-summary block comes after every metric block
BlockOrderGridLast ==
  <<"day_of_week", "monthly_messages", "avg_messages_sent",
    "quarterly_contribution", "yearly_comparison", "top_ten_days",
    "manic", "most_ignored", "novelist", "swears", "hangout",
    "day_summaries", "closing">>

\* the blocks of the try body in source order
BlockOrder == <<"day_of_week", "monthly_messages", "avg_messages_sent",
                "quarterly_contribution", "yearly_comparison", "top_ten_days",
                "day_summaries", "manic", "most_ignored", "novelist", "swears",
                "hangout", "closing">>

\* the metric keys read from the payload
MetricKeys == {"day_of_week", "monthly_messages", "avg_messages_sent",
               "quarterly_contribution", "yearly_comparison", "top_ten_days",
               "manic", "most_ignored", "novelist", "swears", "hangout"}

\* the metrics whose series is passed through sortBarData
SortedKeys == {"day_of_week", "yearly_comparison", "top_ten_days", "manic",
               "most_ignored", "novelist", "swears", "hangout"}

ChartSpec ==
  [day_of_week |-> [title |-> "Average Messages by Day of Week", type |-> "Bar",
                    labelField |-> "day_of_week", valueField |-> "avg_messages",
                    label |-> "Avg Messages by Day of Week",
                    color |-> [css |-> "rgba(54, 162, 235, 0.6)"]],
   monthly_messages |-> [title |-> "Monthly Message Count", type |-> "Line",
                    labelField |-> "date", valueField |-> "message_count",
                    label |-> "Messages per Month",
                    color |-> [css |-> "rgba(255, 99, 132, 1)"]],
   avg_messages_sent |-> [title |-> "Average Messages Sent per Month", type |-> "Line",
                    labelField |-> "month", valueField |-> "avg_messages_sent",
                    label |-> "Avg Messages per Month",
                    color |-> [css |-> "rgba(75, 192, 192, 1)"]],
   quarterly_contribution |-> [title |-> "Quarterly Message Contribution by Sender",
                    type |-> "Line",
                    labelField |-> "date", valueField |-> "message_count",
                    label |-> "", color |-> [css |-> ""]],
   yearly_comparison |-> [title |-> "Year-Over-Year Message Change", type |-> "Bar",
                    labelField |-> "sender", valueField |-> "percent_change",
                    label |-> "YoY % Change",
                    color |-> [css |-> "rgba(153, 102, 255, 0.6)"]],
   top_ten_days |-> [title |-> "Top 10 Most Active Days", type |-> "Bar",
                    labelField |-> "day", valueField |-> "chats",
                    label |-> "Number of Messages",
                    color |-> [css |-> "rgba(255, 206, 86, 0.6)"]],
   manic |-> [title |-> "Most Manic Award", type |-> "Bar",
                    labelField |-> "sender", valueField |-> "percent_manic",
                    label |-> "% Messages (10pm-4am)",
                    color |-> [css |-> "rgba(54, 162, 235, 0.6)"]],
   most_ignored |-> [title |-> "Most Ignored Member :(", type |-> "Bar",
                    labelField |-> "sender", valueField |-> "average_time_to_respond",
                    label |-> "Average Minutes Until Response",
                    color |-> [css |-> "rgba(54, 162, 235, 0.6)"]],
   novelist |-> [title |-> "Groupchat Novelist Award", type |-> "Bar",
                    labelField |-> "sender", valueField |-> "average_message_length",
                    label |-> "Average Characters per Message",
                    color |-> [css |-> "rgba(54, 162, 235, 0.6)"]],
   swears |-> [title |-> "Swear Word Frequency", type |-> "Bar",
                    labelField |-> "sender", valueField |-> "swears_per_message",
                    label |-> "Swears per Message",
                    color |-> [css |-> "rgba(255, 99, 132, 0.6)"]],
   hangout |-> [title |-> "Hangout Discussion Frequency", type |-> "Bar",
                    labelField |-> "sender", valueField |-> "hangouts_per_message",
                    label |-> "Hangout References per Message",
                    color |-> [css |-> "rgba(75, 192, 192, 0.6)"]]]

\* analysisData.K of a payload object
MetricOf(analysisData, key) ==
  IF HasField(analysisData, key) THEN analysisData[key] ELSE Undefined

\* analysisData.K.caption
CaptionOf(rec) == IF HasField(rec, "caption") THEN rec.caption ELSE UndefinedStr

\* the item pushed for a one-series metric (Bar sorted, Line in row order)
SeriesItem(key, rec) ==
  LET spec   == ChartSpec[key]
      labels == [i \in 1..Len(rec.data) |-> safeGet(rec.data[i], spec.labelField, "")]
      values == [i \in 1..Len(rec.data) |-> safeGet(rec.data[i], spec.valueField, 0)]
      sorted == sortBarData(labels, values)
      outLabels == IF key \in SortedKeys THEN sorted.sortedLabels ELSE labels
      outData   == IF key \in SortedKeys THEN sorted.sortedData ELSE values
  IN [type |-> spec.type, title |-> spec.title, labels |-> outLabels,
      datasets |-> <<[label |-> spec.label, data |-> outData, color |-> spec.color]>>,
      commentary |-> CaptionOf(rec)]

\* the items pushed by the quarterly_contribution block (none or one)
QuarterlyItems(rec) ==
  LET quarterData == groupBySender(rec.data, "date", "message_count")
  IN IF Len(quarterData.dates) > 0 /\ Len(quarterData.datasets) > 0
     THEN <<[type |-> "Line", title |-> ChartSpec["quarterly_contribution"].title,
             labels |-> quarterData.dates, datasets |-> quarterData.datasets,
             commentary |-> CaptionOf(rec)]>>
     ELSE <<>>

\* dayData.date / dayData.content.summary raise when dayData or its content
\* is null or undefined
DayThrows(dayData) ==
  \/ ThrowsOnAccess(dayData)
  \/ ~HasField(dayData, "content")
  \/ ThrowsOnAccess(dayData.content)

DaySummary(dayData) ==
  [title |-> safeGet(dayData, "date", ""),
   summary |-> safeGet(dayData.content, "summary", ""),
   chat_logs |-> safeGet(dayData, "chat_logs", <<>>)]

RECURSIVE KeepTitled(_)
\* .filter(summary => summary.title && summary.summary)
KeepTitled(s) ==
  IF s = <<>> THEN <<>>
  ELSE IF s[1].title # "" /\ s[1].summary # "" THEN <<s[1]>> \o KeepTitled(Tail(s))
  ELSE KeepTitled(Tail(s))

ClosingCard ==
  [type |-> "TextSummaryCard", title |-> "That's all folks!",
   summary |-> "We wish you and your groupchat the happiest of New Years! ..."]

\* one block of the try body: acc is the list built so far and whether an
\* exception has already left the try body
Block(analysisData, name, acc) ==
  IF acc.thrown THEN acc
  ELSE IF name = "closing"
  THEN [acc EXCEPT !.items = Append(@, ClosingCard)]
  ELSE IF name = "day_summaries"
  THEN LET rec == MetricOf(analysisData, "top_ten_days")
       IN IF ThrowsOnAccess(rec) \/ ~HasField(rec, "day_summaries") THEN acc
          ELSE IF \E i \in 1..Len(rec.day_summaries) : DayThrows(rec.day_summaries[i])
          THEN [acc EXCEPT !.thrown = TRUE]
          ELSE LET summaries == KeepTitled([i \in 1..Len(rec.day_summaries) |->
                                              DaySummary(rec.day_summaries[i])])
               IN IF Len(summaries) > 0
                  THEN [acc EXCEPT !.items =
                          Append(@, [type |-> "SummaryGrid", summaries |-> summaries])]
                  ELSE acc
  ELSE LET rec == MetricOf(analysisData, name)
       IN IF ThrowsOnAccess(rec) THEN [acc EXCEPT !.thrown = TRUE]
          ELSE IF ~isValidArray(rec, "data") THEN acc
          ELSE IF name = "quarterly_contribution"
          THEN [acc EXCEPT !.items = @ \o QuarterlyItems(rec)]
          ELSE [acc EXCEPT !.items = Append(@, SeriesItem(name, rec))]

RECURSIVE RunBlocks(_, _, _)
RunBlocks(analysisData, n, acc) ==
  IF n > Len(BlockOrder) THEN acc
  ELSE RunBlocks(analysisData, n + 1, Block(analysisData, BlockOrder[n], acc))

buildChartDataSets(analysisData) ==
  IF analysisData = Null THEN <<>>
  ELSE RunBlocks(analysisData, 1, [items |-> <<>>, thrown |-> FALSE]).items

(***************************************************************************)
(* State.  The App component's useState cells keep their source names;     *)
(* view is the state captured by the closures of the last render, net the  *)
(* file reads and requests in flight, timers the pending debounce          *)
(* timeouts, atRequest the payload and cursor held when the running        *)
(* ingestion or year change was started.  asmIn, asmOut and asmPc are the  *)
(* input, result and position of a stand-alone run of the assembler.       *)
(***************************************************************************)
VARIABLES phase, connectionMethod, analysisData, availableYears, selectedYear,
          selectedFile, transcript, currentChartIndex, isScrolling, error,
          drawerOpen, dayLogs, view, net, timers, atRequest,
          asmIn, asmOut, asmPc

stateVars == <<phase, connectionMethod, analysisData, availableYears, selectedYear,
               selectedFile, transcript, currentChartIndex, isScrolling, error,
               drawerOpen, dayLogs>>
appVars == <<stateVars, view, net, timers, atRequest>>
asmVars == <<asmIn, asmOut, asmPc>>
vars == <<appVars, asmVars>>

(***************************************************************************)
(* Inputs of the stand-alone assembler runs.                               *)
(***************************************************************************)
SeqsUpTo(S, n) == UNION {[1..k -> S] : k \in 0..n}

\* label and value of the rows a one-series metric may hold; hasLabel and
\* hasValue tell whether the row has the field at all
RowShapes ==
  {[label |-> "a", value |-> 1, hasLabel |-> TRUE,  hasValue |-> TRUE],
   [label |-> "b", value |-> 1, hasLabel |-> TRUE,  hasValue |-> TRUE],
   [label |-> "b", value |-> 2, hasLabel |-> TRUE,  hasValue |-> TRUE],
   [label |-> "a", value |-> 0, hasLabel |-> TRUE,  hasValue |-> FALSE],
   [label |-> "",  value |-> 2, hasLabel |-> FALSE, hasValue |-> TRUE]}

MkRow(key, c) ==
  [f \in (IF c.hasLabel THEN {ChartSpec[key].labelField} ELSE {})
         \cup (IF c.hasValue THEN {ChartSpec[key].valueField} ELSE {})
     |-> IF f = ChartSpec[key].valueField /\ c.hasValue THEN c.value ELSE c.label]

\* rows of the quarterly_contribution metric
QuarterRows ==
  {[sender |-> "ann", date |-> "2024-Q1", message_count |-> 5],
   [sender |-> "ann", date |-> "2024-Q2", message_count |-> 3],
   [sender |-> "bob", date |-> "2024-Q1", message_count |-> 4],
   [sender |-> "bob", date |-> "2024-Q3"],
   [date |-> "2024-Q2", message_count |-> 2],
   [sender |-> "ann", message_count |-> 7]}

RowsOf(key) ==
  IF key = "quarterly_contribution" THEN QuarterRows
  ELSE {MkRow(key, c) : c \in RowShapes}

LogLine(n) == [sender |-> "ann", date |-> "12/31/24", message |-> n]

\* entries of top_ten_days.day_summaries: complete, without chat_logs,
\* without content, with a content that has no summary, null, without date
DayEntries ==
  {[shape |-> "object", date |-> "2024-12-31",
    content |-> [shape |-> "object", summary |-> "party"],
    chat_logs |-> <<LogLine("happy new year")>>],
   [shape |-> "object", date |-> "2024-07-04",
    content |-> [shape |-> "object", summary |-> "fireworks"]],
   [shape |-> "object", date |-> "2024-05-01"],
   [shape |-> "object", date |-> "2024-03-01", content |-> [shape |-> "object"]],
   Null,
   [shape |-> "object", content |-> [shape |-> "object", summary |-> "undated"]]}

\* the values a metric key may hold: missing, null, an object without data,
\* an object with a row list (captioned or not)
MetricVals(key) ==
  {Undefined, Null, [shape |-> "object"]}
  \cup {[shape |-> "object", data |-> rows, caption |-> "cap"] :
          rows \in SeqsUpTo(RowsOf(key), MaxRows)}
  \cup {[shape |-> "object", data |-> rows] : rows \in SeqsUpTo(RowsOf(key), 1)}
  \cup (IF key # "top_ten_days" THEN {}
        ELSE {[shape |-> "object", data |-> rows, caption |-> "cap",
               day_summaries |-> days] :
                rows \in SeqsUpTo(RowsOf(key), 1),
                days \in SeqsUpTo(DayEntries, MaxDays)})

\* the object with exactly the keys whose value is not undefined
MkPayload(m) ==
  [k \in {"shape"} \cup {key \in MetricKeys : m[key] # Undefined} |->
     IF k = "shape" THEN "object" ELSE m[k]]

EmptyMetric == [shape |-> "object", data |-> <<>>, caption |-> "cap"]

\* every metric present with an empty row list
BaseEmpty == [key \in MetricKeys |-> EmptyMetric]

\* every metric present with one row
BaseFull ==
  [key \in MetricKeys |->
     [shape |-> "object", caption |-> "cap",
      data |-> <<CHOOSE r \in RowsOf(key) : DOMAIN r = DOMAIN
                   (IF key = "quarterly_contribution"
                    THEN [sender |-> "", date |-> "", message_count |-> 0]
                    ELSE MkRow(key, [label |-> "", value |-> 0,
                                     hasLabel |-> TRUE, hasValue |-> TRUE]))>>]]

\* a second metric deviates from the base only in its shape
SmallVals(base, key) == {Undefined, Null, [shape |-> "object"], base[key]}

AsmBases == {BaseEmpty, BaseFull}

\* base with the metrics k1 and k2 replaced
AsmInput(base, k1, v1, k2, v2) == MkPayload([base EXCEPT ![k1] = v1, ![k2] = v2])

(***************************************************************************)
(* Initial state: the useState initial values, App.js lines 880-892.       *)
(***************************************************************************)
NoYear == [t |-> "null", n |-> 0]
NoFile == "null"
NoText == "null"
NoError == "null"
NoMethod == "null"

\* no ingestion or year change is running
NoRequest == [analysisData |-> Null, currentChartIndex |-> 0]

StateRec ==
  [phase |-> phase, connectionMethod |-> connectionMethod,
   analysisData |-> analysisData, availableYears |-> availableYears,
   selectedYear |-> selectedYear, selectedFile |-> selectedFile,
   transcript |-> transcript, currentChartIndex |-> currentChartIndex,
   isScrolling |-> isScrolling, error |-> error,
   drawerOpen |-> drawerOpen, dayLogs |-> dayLogs]

AppInit ==
  /\ phase = "upload"
  /\ connectionMethod = NoMethod
  /\ analysisData = Null
  /\ availableYears = <<>>
  /\ selectedYear = NoYear
  /\ selectedFile = NoFile
  /\ transcript = NoText
  /\ currentChartIndex = 0
  /\ isScrolling = FALSE
  /\ error = NoError
  /\ drawerOpen = FALSE
  /\ dayLogs = <<>>
  /\ view = StateRec
  /\ net = {}
  /\ timers = 0
  /\ atRequest = NoRequest

AsmIdle ==
  /\ asmIn = Null
  /\ asmOut = <<>>
  /\ asmPc = "idle"

(***************************************************************************)
(* Stand-alone runs of the assembler on every input of AsmInputs.          *)
(***************************************************************************)
AsmInit ==
  /\ AppInit
  /\ \/ asmIn \in {Null, [shape |-> "object"]}
     \/ \E base \in AsmBases, k1 \in MetricKeys, k2 \in MetricKeys :
          \E v1 \in MetricVals(k1), v2 \in SmallVals(base, k2) :
            asmIn = AsmInput(base, k1, v1, k2, v2)
  /\ asmOut = <<>>
  /\ asmPc = "call"

Assemble ==
  /\ asmPc = "call"
  /\ asmOut' = buildChartDataSets(asmIn)
  /\ asmPc' = "done"
  /\ UNCHANGED <<appVars, asmIn>>

AsmNext == Assemble

SpecAssembler == AsmInit /\ [][AsmNext]_vars

(***************************************************************************)
(* The analysis service and the file reader: what a request can come back  *)
(* with.                                                                   *)
(***************************************************************************)
\* most debounce timeouts pending at once
MaxTimers == 2
\* the cursor is not stepped further than MaxOvershoot outside 0 .. length-1
MaxOvershoot == 1

Files == {"chat.txt"}
\* FileReader.readAsText result of a file
ReadText(file) == IF file = "chat.txt" THEN "transcript of chat.txt" ELSE ""

Year(n) == [t |-> "number", n |-> n]
\* e.target.value of the <option> rendered for a year: its string form
OptionValue(year) == [t |-> "string", n |-> year.n]

\* bodies of a 2xx /available-years response: null, no available_years key,
\* a non-list, an empty list, a list of years
YearsBodies ==
  {Null, [shape |-> "object"],
   [shape |-> "object", available_years |-> [isArray |-> FALSE, items |-> <<>>]],
   [shape |-> "object", available_years |-> [isArray |-> TRUE, items |-> <<>>]],
   [shape |-> "object", available_years |->
      [isArray |-> TRUE, items |-> <<Year(2024), Year(2023)>>]]}

\* bodies of a 2xx /analyze response
PayloadEmptyAll == MkPayload(BaseEmpty)
PayloadGrid ==
  MkPayload([BaseEmpty EXCEPT
    !["top_ten_days"] =
      [shape |-> "object", caption |-> "cap",
       data |-> <<[day |-> "2024-12-31", chats |-> 90]>>,
       day_summaries |->
         <<[shape |-> "object", date |-> "2024-12-31",
            content |-> [shape |-> "object", summary |-> "party"],
            chat_logs |-> <<LogLine("happy new year")>>],
           [shape |-> "object", date |-> "2024-07-04",
            content |-> [shape |-> "object", summary |-> "fireworks"]]>>]])
ServicePayloads == {Null, [shape |-> "object"], PayloadEmptyAll, PayloadGrid}

\* buildChartDataSets of every payload the service can send, computed once
AssembledPayloads == [p \in ServicePayloads |-> buildChartDataSets(p)]

\* const chartDataSets = buildChartDataSets(analysisData) of a render or handler
chartDataSetsOf(payload) == AssembledPayloads[payload]

\* how a pending file read or request can complete
Outcomes(kind) ==
  IF kind = "read" THEN {"ok", "readerror"}
  ELSE {"ok", "networkerror", "httperror", "badjson"}

Bodies(kind, outcome) ==
  IF outcome # "ok" THEN {Null}
  ELSE IF kind = "read" THEN {Null}
  ELSE IF kind = "years" THEN YearsBodies
  ELSE ServicePayloads

Request(flow, kind, req) ==
  [flow |-> flow, kind |-> kind, st |-> "pending", req |-> req,
   outcome |-> "none", body |-> Null]

\* a pending file read or request completes; its continuation runs later
Complete ==
  \E msg \in net :
    /\ msg.st = "pending"
    /\ \E outcome \in Outcomes(msg.kind) :
         \E body \in Bodies(msg.kind, outcome) :
           net' = (net \ {msg}) \cup
                  {[msg EXCEPT !.st = "done", !.outcome = outcome, !.body = body]}
    /\ UNCHANGED <<stateVars, view, timers, atRequest, asmVars>>

(***************************************************************************)
(* Render, App.js lines 1037-1251.                                         *)
(***************************************************************************)
Min(a, b) == IF a < b THEN a ELSE b
Max(a, b) == IF a > b THEN a ELSE b

\* which branch of the render logic a rendered state takes
Screen(v) ==
  IF v.phase = "visualize"
  THEN IF Len(chartDataSetsOf(v.analysisData)) = 0 THEN "nodata" ELSE "charts"
  ELSE v.phase

safeCurrentIndex(v) ==
  Max(0, Min(v.currentChartIndex, Len(chartDataSetsOf(v.analysisData)) - 1))

\* the item on screen (1-based position safeCurrentIndex + 1)
currentItem(v) == chartDataSetsOf(v.analysisData)[safeCurrentIndex(v) + 1]

\* a wheel listener that stays attached on every screen
WheelEnabledOnAnyScreen(v) == Len(chartDataSetsOf(v.analysisData)) > 0

\* the element carrying onWheel={handleScroll} is rendered
WheelEnabled(v) == Screen(v) = "charts"

\* a year <select> that is also rendered on the no-data screen
YearSelectOnNoData(v) == v.phase = "visualize"

\* a year <select> that stays on screen while a request is loading
YearSelectWhileLoading(v) ==
  /\ v.phase \in {"visualize", "loading"}
  /\ Len(chartDataSetsOf(v.analysisData)) > 0

\* the year <select> is rendered
YearSelectEnabled(v) == Screen(v) = "charts"

\* state updates queued outside a discrete event are rendered later
Render ==
  /\ view # StateRec
  /\ view' = StateRec
  /\ UNCHANGED <<stateVars, net, timers, atRequest, asmVars>>

(***************************************************************************)
(* Upload screen and ingestion, App.js lines 894-969 and 1038-1114.        *)
(***************************************************************************)
ChooseFileUpload ==
  /\ Screen(view) = "upload"
  /\ view.connectionMethod = NoMethod
  /\ connectionMethod' = "file"
  /\ view' = [view EXCEPT !.connectionMethod = "file"]
  /\ UNCHANGED <<phase, analysisData, availableYears, selectedYear, selectedFile,
                 transcript, currentChartIndex, isScrolling, error, drawerOpen,
                 dayLogs, net, timers, atRequest, asmVars>>

BackToOptions ==
  /\ Screen(view) = "upload"
  /\ view.connectionMethod # NoMethod
  /\ connectionMethod' = NoMethod
  /\ error' = NoError
  /\ view' = [view EXCEPT !.connectionMethod = NoMethod, !.error = NoError]
  /\ UNCHANGED <<phase, analysisData, availableYears, selectedYear, selectedFile,
                 transcript, currentChartIndex, isScrolling, drawerOpen,
                 dayLogs, net, timers, atRequest, asmVars>>

handleFileChange(file) ==
  /\ Screen(view) = "upload"
  /\ view.connectionMethod = "file"
  /\ selectedFile' = file
  /\ view' = [view EXCEPT !.selectedFile = file]
  /\ UNCHANGED <<phase, connectionMethod, analysisData, availableYears, selectedYear,
                 transcript, currentChartIndex, isScrolling, error, drawerOpen,
                 dayLogs, net, timers, atRequest, asmVars>>

handleFileUpload ==
  /\ Screen(view) = "upload"
  /\ view.connectionMethod = "file"
  /\ view.selectedFile # NoFile
  /\ phase' = "loading"
  /\ view' = [view EXCEPT !.phase = "loading"]
  /\ net' = net \cup {Request("ingest", "read", [file |-> view.selectedFile])}
  /\ atRequest' = [analysisData |-> analysisData,
                   currentChartIndex |-> currentChartIndex]
  /\ UNCHANGED <<connectionMethod, analysisData, availableYears, selectedYear,
                 selectedFile, transcript, currentChartIndex, isScrolling, error,
                 drawerOpen, dayLogs, timers, asmVars>>

\* reader.onerror
ReaderOnError ==
  \E msg \in net :
    /\ msg.kind = "read" /\ msg.st = "done" /\ msg.outcome # "ok"
    /\ error' = "Failed to read file"
    /\ phase' = "upload"
    /\ net' = net \ {msg}
    /\ UNCHANGED <<connectionMethod, analysisData, availableYears, selectedYear,
                   selectedFile, transcript, currentChartIndex, isScrolling,
                   drawerOpen, dayLogs, view, timers, atRequest, asmVars>>

\* reader.onload up to the first await
ReaderOnLoad ==
  \E msg \in net :
    /\ msg.kind = "read" /\ msg.st = "done" /\ msg.outcome = "ok"
    /\ transcript' = ReadText(msg.req.file)
    /\ net' = (net \ {msg}) \cup
              {Request("ingest", "years", [transcript |-> ReadText(msg.req.file)])}
    /\ UNCHANGED <<phase, connectionMethod, analysisData, availableYears,
                   selectedYear, selectedFile, currentChartIndex, isScrolling,
                   error, drawerOpen, dayLogs, view, timers, atRequest, asmVars>>

\* the years response passes the checks of lines 923-934
YearsUsable(msg) ==
  /\ msg.outcome = "ok"
  /\ ~ThrowsOnAccess(msg.body)
  /\ HasField(msg.body, "available_years")
  /\ msg.body.available_years.isArray
  /\ Len(msg.body.available_years.items) # 0

\* an initial year taken from the end of the list
initialYearLast(msg) ==
  msg.body.available_years.items[Len(msg.body.available_years.items)]

\* const initialYear = yearsJson.available_years[0]
initialYear(msg) == msg.body.available_years.items[1]

\* a catch block that shows the error screen instead of the upload screen
IngestCatchToError ==
  /\ error' = "Analysis failed"
  /\ phase' = "error"
  /\ UNCHANGED <<analysisData, currentChartIndex, atRequest>>

\* a catch block that forgets setPhase
IngestCatchKeepsPhase ==
  /\ error' = "Analysis failed"
  /\ UNCHANGED <<phase, analysisData, currentChartIndex, atRequest>>

\* the catch block of reader.onload
IngestCatch ==
  /\ error' = "Analysis failed"
  /\ phase' = "upload"
  /\ UNCHANGED <<analysisData, currentChartIndex, atRequest>>

\* reader.onload from the /available-years response to the next await
OnLoadAfterYears ==
  \E msg \in net :
    /\ msg.flow = "ingest" /\ msg.kind = "years" /\ msg.st = "done"
    /\ IF YearsUsable(msg)
       THEN /\ availableYears' = msg.body.available_years.items
            /\ selectedYear' = initialYear(msg)
            /\ net' = (net \ {msg}) \cup
                      {Request("ingest", "analyze",
                               [transcript |-> msg.req.transcript,
                                year |-> initialYear(msg)])}
            /\ UNCHANGED <<phase, error, analysisData, currentChartIndex, atRequest>>
       ELSE /\ IngestCatch
            /\ net' = net \ {msg}
            /\ UNCHANGED <<availableYears, selectedYear>>
    /\ UNCHANGED <<connectionMethod, selectedFile, transcript, isScrolling,
                   drawerOpen, dayLogs, view, timers, asmVars>>

\* reader.onload from the /analyze response to its end
OnLoadAfterAnalyze ==
  \E msg \in net :
    /\ msg.flow = "ingest" /\ msg.kind = "analyze" /\ msg.st = "done"
    /\ net' = net \ {msg}
    /\ IF msg.outcome = "ok"
       THEN /\ analysisData' = msg.body
            /\ phase' = "visualize"
            /\ currentChartIndex' = 0
            /\ atRequest' = NoRequest
            /\ UNCHANGED error
       ELSE IngestCatch
    /\ UNCHANGED <<connectionMethod, availableYears, selectedYear, selectedFile,
                   transcript, isScrolling, drawerOpen, dayLogs, view, timers,
                   asmVars>>

(***************************************************************************)
(* Year change, App.js lines 971-995.                                      *)
(***************************************************************************)
handleYearChange(year) ==
  /\ YearSelectEnabled(view)
  /\ \E i \in 1..Len(view.availableYears) : OptionValue(view.availableYears[i]) = year
  /\ year # (IF view.selectedYear.t = "null" THEN view.selectedYear
             ELSE OptionValue(view.selectedYear))
  /\ selectedYear' = year
  /\ phase' = "loading"
  /\ view' = [view EXCEPT !.selectedYear = year, !.phase = "loading"]
  /\ net' = net \cup {Request("year", "analyze",
                              [transcript |-> view.transcript, year |-> year])}
  /\ atRequest' = [analysisData |-> analysisData,
                   currentChartIndex |-> currentChartIndex]
  /\ UNCHANGED <<connectionMethod, analysisData, availableYears, selectedFile,
                 transcript, currentChartIndex, isScrolling, error, drawerOpen,
                 dayLogs, timers, asmVars>>

\* a catch block that returns to the upload screen
YearCatchToUpload ==
  /\ error' = "Failed to fetch data for year"
  /\ phase' = "upload"
  /\ UNCHANGED <<analysisData, currentChartIndex, atRequest>>

\* a catch block that also resets the cursor
YearCatchResetsCursor ==
  /\ error' = "Failed to fetch data for year"
  /\ phase' = "error"
  /\ currentChartIndex' = 0
  /\ UNCHANGED <<analysisData, atRequest>>

\* the catch block of handleYearChange
YearCatch ==
  /\ error' = "Failed to fetch data for year"
  /\ phase' = "error"
  /\ UNCHANGED <<analysisData, currentChartIndex, atRequest>>

\* a success path that leaves the cursor where it was
YearChangeKeepsCursor ==
  \E msg \in net :
    /\ msg.flow = "year" /\ msg.kind = "analyze" /\ msg.st = "done"
    /\ net' = net \ {msg}
    /\ IF msg.outcome = "ok"
       THEN /\ analysisData' = msg.body
            /\ phase' = "visualize"
            /\ atRequest' = NoRequest
            /\ UNCHANGED <<error, currentChartIndex>>
       ELSE YearCatch
    /\ UNCHANGED <<connectionMethod, availableYears, selectedYear, selectedFile,
                   transcript, isScrolling, drawerOpen, dayLogs, view, timers,
                   asmVars>>

\* handleYearChange from the /analyze response to its end
YearChangeAfterAnalyze ==
  \E msg \in net :
    /\ msg.flow = "year" /\ msg.kind = "analyze" /\ msg.st = "done"
    /\ net' = net \ {msg}
    /\ IF msg.outcome = "ok"
       THEN /\ analysisData' = msg.body
            /\ phase' = "visualize"
            /\ currentChartIndex' = 0
            /\ atRequest' = NoRequest
            /\ UNCHANGED error
       ELSE YearCatch
    /\ UNCHANGED <<connectionMethod, availableYears, selectedYear, selectedFile,
                   transcript, isScrolling, drawerOpen, dayLogs, view, timers,
                   asmVars>>

(***************************************************************************)
(* Navigation, App.js lines 1020-1035.                                     *)
(***************************************************************************)
\* the cursor after one step event, as the handler of the rendered state v
\* decides it: prev + 1, prev - 1 or prev
StepCursor(v, deltaY, prev) ==
  LET chartDataSets == chartDataSetsOf(v.analysisData)
  IN IF deltaY > 0 /\ v.currentChartIndex < Len(chartDataSets) - 1 THEN prev + 1
     ELSE IF deltaY < 0 /\ v.currentChartIndex > 0 THEN prev - 1
     ELSE prev

\* the early returns of handleScroll
ScrollIgnored(v) ==
  \/ v.isScrolling
  \/ v.analysisData = Null
  \/ Len(chartDataSetsOf(v.analysisData)) = 0

\* a handler that returns before setTimeout when the step does not move
handleScrollNoTimerAtBoundary(deltaY) ==
  /\ WheelEnabled(view)
  /\ IF ScrollIgnored(view)
     THEN UNCHANGED <<isScrolling, currentChartIndex, timers>>
     ELSE /\ timers < MaxTimers
          /\ StepCursor(view, deltaY, currentChartIndex) \in
               -MaxOvershoot..(Len(chartDataSetsOf(view.analysisData)) - 1 + MaxOvershoot)
          /\ isScrolling' = TRUE
          /\ currentChartIndex' = StepCursor(view, deltaY, currentChartIndex)
          /\ timers' = IF StepCursor(view, deltaY, currentChartIndex) = currentChartIndex
                       THEN timers ELSE timers + 1
  /\ UNCHANGED <<phase, connectionMethod, analysisData, availableYears, selectedYear,
                 selectedFile, transcript, error, drawerOpen, dayLogs, view, net,
                 atRequest, asmVars>>

handleScroll(deltaY) ==
  /\ WheelEnabled(view)
  /\ IF ScrollIgnored(view)
     THEN UNCHANGED <<isScrolling, currentChartIndex, timers>>
     ELSE /\ timers < MaxTimers
          /\ StepCursor(view, deltaY, currentChartIndex) \in
               -MaxOvershoot..(Len(chartDataSetsOf(view.analysisData)) - 1 + MaxOvershoot)
          /\ isScrolling' = TRUE
          /\ currentChartIndex' = StepCursor(view, deltaY, currentChartIndex)
          /\ timers' = timers + 1
  /\ UNCHANGED <<phase, connectionMethod, analysisData, availableYears, selectedYear,
                 selectedFile, transcript, error, drawerOpen, dayLogs, view, net,
                 atRequest, asmVars>>

\* the timeout set by handleScroll fires
DebounceTimeout ==
  /\ timers > 0
  /\ timers' = timers - 1
  /\ isScrolling' = FALSE
  /\ UNCHANGED <<phase, connectionMethod, analysisData, availableYears, selectedYear,
                 selectedFile, transcript, currentChartIndex, error, drawerOpen,
                 dayLogs, view, net, atRequest, asmVars>>

(***************************************************************************)
(* Chat-log drawer, App.js lines 997-1009 and 1228-1233.                   *)
(***************************************************************************)
handleDaySummaryClick(dayIndex) ==
  /\ Screen(view) = "charts"
  /\ currentItem(view).type = "SummaryGrid"
  /\ LET chartDataSets == chartDataSetsOf(view.analysisData)
         grids == {i \in 1..Len(chartDataSets) : chartDataSets[i].type = "SummaryGrid"}
     IN IF grids = {} \/ dayIndex + 1 > Len(chartDataSets[CHOOSE i \in grids : TRUE].summaries)
        THEN UNCHANGED <<dayLogs, drawerOpen, view>>
        ELSE LET logsForDay ==
                   chartDataSets[CHOOSE i \in grids : TRUE].summaries[dayIndex + 1].chat_logs
             IN /\ dayLogs' = logsForDay
                /\ drawerOpen' = TRUE
                /\ view' = [view EXCEPT !.dayLogs = logsForDay, !.drawerOpen = TRUE]
  /\ UNCHANGED <<phase, connectionMethod, analysisData, availableYears, selectedYear,
                 selectedFile, transcript, currentChartIndex, isScrolling, error,
                 net, timers, atRequest, asmVars>>

\* onClose of DayChatLogsDrawer
CloseDrawer ==
  /\ Screen(view) = "charts"
  /\ drawerOpen' = FALSE
  /\ view' = [view EXCEPT !.drawerOpen = FALSE]
  /\ UNCHANGED <<phase, connectionMethod, analysisData, availableYears, selectedYear,
                 selectedFile, transcript, currentChartIndex, isScrolling, error,
                 dayLogs, net, timers, atRequest, asmVars>>

(***************************************************************************)
(* The application.                                                        *)
(***************************************************************************)
Init == AppInit /\ AsmIdle

Next ==
  \/ ChooseFileUpload
  \/ BackToOptions
  \/ \E file \in Files : handleFileChange(file)
  \/ handleFileUpload
  \/ Complete
  \/ ReaderOnError
  \/ ReaderOnLoad
  \/ OnLoadAfterYears
  \/ OnLoadAfterAnalyze
  \/ \E year \in {OptionValue(Year(n)) : n \in {2023, 2024}} : handleYearChange(year)
  \/ YearChangeAfterAnalyze
  \/ \E deltaY \in {-1, 0, 1} : handleScroll(deltaY)
  \/ DebounceTimeout
  \/ Render
  \/ \E dayIndex \in 0..MaxDays : handleDaySummaryClick(dayIndex)
  \/ CloseDrawer

Spec == Init /\ [][Next]_vars

\* every issued file read and request completes and its continuation runs
FairSpec ==
  /\ Spec
  /\ WF_vars(Complete)
  /\ WF_vars(ReaderOnError)
  /\ WF_vars(ReaderOnLoad)
  /\ WF_vars(OnLoadAfterYears)
  /\ WF_vars(OnLoadAfterAnalyze)
  /\ WF_vars(YearChangeAfterAnalyze)

\* every debounce timeout set fires and every queued render is carried out
FairNavSpec ==
  /\ Spec
  /\ WF_vars(DebounceTimeout)
  /\ WF_vars(Render)

(***************************************************************************)
(* Properties of the assembler (checked under SpecAssembler).              *)
(***************************************************************************)
IsObject(payload) == payload.shape = "object"

\* the items of a sequence that belong to metric key
ItemsFor(items, key) ==
  {i \in 1..Len(items) :
     \/ HasField(items[i], "title") /\ items[i].title = ChartSpec[key].title
     \/ key = "top_ten_days" /\ items[i].type = "SummaryGrid"}

\* payload with metric key set to value
WithMetric(payload, key, value) ==
  [k \in DOMAIN payload \cup {key} |-> IF k = key THEN value ELSE payload[k]]

\* C1: for every payload, the null payload and the payload without any
\* recognized key included, the assembled sequence is non-empty and ends
\* with the closing TextCard; for those two payloads it has exactly one item.
C1_ClosingCardAlwaysLast ==
  asmPc = "done" =>
    /\ Len(asmOut) > 0
    /\ asmOut[Len(asmOut)] = ClosingCard
    /\ (asmIn = Null \/ DOMAIN asmIn \cap MetricKeys = {}) => Len(asmOut) = 1

\* C2: a metric key absent from the payload yields no item for that key and
\* leaves every other item as it is for the same payload with the key
\* present and holding an empty row list.
C2_AbsentKeyLikeEmptyRows ==
  (asmPc = "done" /\ IsObject(asmIn)) =>
    \A key \in MetricKeys :
      ~HasField(asmIn, key) =>
        /\ ItemsFor(asmOut, key) = {}
        /\ asmOut = buildChartDataSets(
                      WithMetric(asmIn, key, [shape |-> "object", data |-> <<>>]))

\* the record of metric key is null, or (top_ten_days) one of its day
\* summaries is null or has no content
Malformed(payload, key) ==
  /\ HasField(payload, key)
  /\ \/ payload[key] = Null
     \/ /\ key = "top_ten_days"
        /\ payload[key] # Null
        /\ HasField(payload[key], "day_summaries")
        /\ \E i \in 1..Len(payload[key].day_summaries) :
             DayThrows(payload[key].day_summaries[i])

\* the payload with the malformed part of metric key left out
Repaired(payload, key) ==
  IF payload[key] = Null
  THEN WithMetric(payload, key, [shape |-> "object"])
  ELSE WithMetric(payload, key,
         [f \in DOMAIN payload[key] \ {"day_summaries"} |-> payload[key][f]])

\* C3: when exactly one metric of a payload that has every key is malformed,
\* only that metric's item is omitted: the result is the one assembled
\* without the malformed part, closing TextCard included.
C3_MalformedMetricOmitsOnlyItself ==
  (asmPc = "done" /\ IsObject(asmIn) /\ MetricKeys \subseteq DOMAIN asmIn) =>
    \A key \in MetricKeys :
      (Malformed(asmIn, key) /\ \A other \in MetricKeys \ {key} : ~Malformed(asmIn, other))
        => /\ asmOut = buildChartDataSets(Repaired(asmIn, key))
           /\ asmOut # <<>>
           /\ asmOut[Len(asmOut)] = ClosingCard

(***************************************************************************)
(* Properties of navigation (checked under Spec).                          *)
(***************************************************************************)
\* C4: whenever the assembled sequence of the held payload is non-empty, the
\* cursor lies in 0 .. length-1.
C4_CursorInBounds ==
  Len(chartDataSetsOf(analysisData)) > 0 =>
    /\ 0 <= currentChartIndex
    /\ currentChartIndex <= Len(chartDataSetsOf(analysisData)) - 1

\* C5: one step event moves the cursor by at most one, and not at all while
\* isScrolling is true, when the move would leave 0 .. length-1, or when
\* there is no payload or no item.
C5_StepIsClampedAndDebounced ==
  [][(\E deltaY \in {-1, 0, 1} : handleScroll(deltaY)) =>
       /\ currentChartIndex' - currentChartIndex \in {-1, 0, 1}
       /\ isScrolling => currentChartIndex' = currentChartIndex
       /\ currentChartIndex' # currentChartIndex =>
            currentChartIndex' \in 0..(Len(chartDataSetsOf(analysisData)) - 1)
       /\ (analysisData = Null \/ Len(chartDataSetsOf(analysisData)) = 0) =>
            currentChartIndex' = currentChartIndex]_vars

(***************************************************************************)
(* Properties of the phase machine (checked under Spec and FairSpec).      *)
(***************************************************************************)
\* the file read or request whose continuation runs in this step
Consumed(msg) == msg \in net /\ msg \notin net' /\ msg.st = "done"
\* a file read or request issued in this step
Issued(msg) == msg \in net' /\ msg \notin net /\ msg.st = "pending"

\* a completed file read or request that came back as a failure: read error,
\* network error, non-2xx status, unparsable body, or a years body whose
\* available_years is missing, not a list or empty
Failed(msg) ==
  \/ msg.outcome # "ok"
  \/ /\ msg.kind = "years"
     /\ \/ msg.body = Null
        \/ ~HasField(msg.body, "available_years")
        \/ ~msg.body.available_years.isArray
        \/ msg.body.available_years.items = <<>>

\* C6: the phase only changes along upload->loading (upload started),
\* loading->visualize (an analyze call of either flow succeeded),
\* loading->upload (ingestion failed), visualize->loading (year change) and
\* loading->error (year change failed).
C6_PhaseEdges ==
  [][phase' # phase =>
       \/ /\ phase = "upload" /\ phase' = "loading"
          /\ \E msg \in net' : Issued(msg) /\ msg.flow = "ingest" /\ msg.kind = "read"
       \/ /\ phase = "loading" /\ phase' = "visualize"
          /\ \E msg \in net : Consumed(msg) /\ msg.kind = "analyze" /\ ~Failed(msg)
       \/ /\ phase = "loading" /\ phase' = "upload"
          /\ \E msg \in net : Consumed(msg) /\ msg.flow = "ingest" /\ Failed(msg)
       \/ /\ phase = "visualize" /\ phase' = "loading"
          /\ \E msg \in net' : Issued(msg) /\ msg.flow = "year" /\ msg.kind = "analyze"
       \/ /\ phase = "loading" /\ phase' = "error"
          /\ \E msg \in net : Consumed(msg) /\ msg.flow = "year" /\ Failed(msg)]_vars

\* a year change has failed and led to the error screen
C6_Witness == phase = "error" /\ view.phase = "error" /\ availableYears # <<>>

\* C7: when every file read and request completes, loading always resolves
\* to visualize, upload or error, and exactly one file read or request is in
\* flight while loading and none otherwise, so one continuation resolves it.
C7_LoadingResolves ==
  /\ (phase = "loading") ~> (phase \in {"visualize", "upload", "error"})
  /\ [](phase = "loading" => Cardinality(net) = 1)
  /\ [](phase # "loading" => net = {})

\* an ingestion failure has resolved loading back to upload
C7_Witness == phase = "upload" /\ error = "Analysis failed" /\ net = {}

\* C8: when the analyze request of a year change fails, the phase becomes
\* error, an error message is set, payload and cursor are those held when
\* the year change was requested, and the charts are not on screen.
C8_YearFailureKeepsState ==
  [][(\E msg \in net : Consumed(msg) /\ msg.flow = "year" /\ Failed(msg)) =>
       /\ phase' = "error"
       /\ error' # NoError
       /\ analysisData' = atRequest.analysisData
       /\ currentChartIndex' = atRequest.currentChartIndex
       /\ Screen(view') \in {"loading", "error"}]_vars

\* a year change requested at a cursor other than 0 has failed
C8_Witness ==
  /\ phase = "error"
  /\ currentChartIndex > 0
  /\ analysisData = PayloadGrid
  /\ atRequest = [analysisData |-> PayloadGrid, currentChartIndex |-> currentChartIndex]

\* C9: once the phase is error, no step changes the phase, the payload or
\* the cursor.
C9_ErrorIsTerminal ==
  [][phase = "error" =>
       /\ phase' = "error"
       /\ analysisData' = analysisData
       /\ currentChartIndex' = currentChartIndex]_vars

\* the error screen is rendered over a payload with several items while a
\* debounce timeout is still pending
C9_Witness ==
  /\ phase = "error" /\ view.phase = "error"
  /\ timers > 0
  /\ Len(chartDataSetsOf(analysisData)) > 1

\* C10: every ingestion failure returns the phase to upload with an error
\* message set, leaves payload and cursor as they were when the upload was
\* started, and leaves no file read or request in flight; a new one is only
\* issued by an upload or a year change of the user.
C10_IngestionFailure ==
  /\ [][(\E msg \in net : Consumed(msg) /\ msg.flow = "ingest" /\ Failed(msg)) =>
          /\ phase' = "upload"
          /\ error' \notin {NoError, ""}
          /\ analysisData' = atRequest.analysisData
          /\ currentChartIndex' = atRequest.currentChartIndex
          /\ net' = {}]_vars
  /\ [][(net = {} /\ net' # {}) =>
          \/ handleFileUpload
          \/ \E year \in {OptionValue(Year(n)) : n \in {2023, 2024}} :
               handleYearChange(year)]_vars

\* the initial /analyze call failed after /available-years had succeeded
C10_Witness ==
  /\ phase = "upload"
  /\ error = "Analysis failed"
  /\ availableYears # <<>>
  /\ net = {}

(***************************************************************************)
(* Properties of the empty result (checked under Spec).                    *)
(***************************************************************************)
\* a successfully received analyze response whose payload assembles to no item
EmptyResult(msg) ==
  /\ msg.kind = "analyze"
  /\ ~Failed(msg)
  /\ Len(chartDataSetsOf(msg.body)) = 0

C12_OneRequestInFlight ==
  /\ [](Cardinality(net) <= 1)
  /\ [](net # {} => Screen(view) = "loading")
  /\ [][\A msg \in net' :
          Issued(msg) =>
            \/ net = {}
            \/ /\ msg.flow = "ingest"
               /\ \E old \in net : Consumed(old) /\ old.flow = "ingest"]_vars

\* the analyze request of a year change is outstanding
C12_Witness ==
  /\ \E msg \in net : msg.flow = "year" /\ msg.kind = "analyze" /\ msg.st = "pending"
  /\ phase = "loading"
  /\ analysisData = PayloadGrid

\* C13: during ingestion the /analyze request is issued only in the step that
\* consumes an /available-years response that came back ok with a non-empty
\* list; its year is the first element of that list, which is also stored as
\* selectedYear; a years response that is not such a list issues nothing.
C13_AnalyzeAfterUsableYears ==
  /\ [][\A msg \in net' :
          (Issued(msg) /\ msg.flow = "ingest" /\ msg.kind = "analyze") =>
            \E old \in net :
              /\ Consumed(old) /\ old.flow = "ingest" /\ old.kind = "years"
              /\ old.outcome = "ok"
              /\ old.body # Null /\ HasField(old.body, "available_years")
              /\ old.body.available_years.isArray
              /\ Len(old.body.available_years.items) > 0
              /\ msg.req.year = old.body.available_years.items[1]
              /\ selectedYear' = old.body.available_years.items[1]
              /\ availableYears' = old.body.available_years.items]_vars
  /\ [][\A old \in net :
          (Consumed(old) /\ old.kind = "years" /\
             (old.outcome # "ok" \/ old.body \notin
                {b \in YearsBodies : /\ b # Null /\ HasField(b, "available_years")
                                     /\ b.available_years.isArray
                                     /\ Len(b.available_years.items) > 0})) =>
            net' = {} /\ selectedYear' = selectedYear]_vars

\* the ingestion's /analyze request is in flight for the first listed year
C13_Witness ==
  /\ \E msg \in net : /\ msg.flow = "ingest" /\ msg.kind = "analyze"
                      /\ msg.req.year = Year(2024)
  /\ availableYears = <<Year(2024), Year(2023)>>
  /\ selectedYear = Year(2024)

\* C14: the step that consumes an /analyze response that came back ok, of an
\* ingestion or of a year change, ends with phase = visualize, the payload
\* equal to the response body and the cursor at 0.
C14_SuccessReplacesPayload ==
  [][\A msg \in net :
       (Consumed(msg) /\ msg.kind = "analyze" /\ msg.outcome = "ok") =>
         /\ phase' = "visualize"
         /\ analysisData' = msg.body
         /\ currentChartIndex' = 0]_vars

\* a year change has just succeeded: the last render still shows the loading
\* screen with the old payload and a cursor that was not 0
C14_Witness ==
  /\ phase = "visualize" /\ view.phase = "loading"
  /\ analysisData = PayloadEmptyAll /\ view.analysisData = PayloadGrid
  /\ currentChartIndex = 0 /\ view.currentChartIndex > 0
  /\ net = {}

(***************************************************************************)
(* Order and content of the assembled sequence (checked under              *)
(* SpecAssembler).                                                         *)
(***************************************************************************)
\* the block an item comes from: its metric for a Series item (by title),
\* day_summaries for the DayGrid, closing for the TextCard
BlockOf(item) ==
  IF item.type = "SummaryGrid" THEN "day_summaries"
  ELSE IF item.type = "TextSummaryCard" THEN "closing"
  ELSE CHOOSE key \in MetricKeys : ChartSpec[key].title = item.title

IsSeries(item) == item.type \in {"Bar", "Line"}

\* position of a block in the order: day_of_week, monthly_messages,
\* avg_messages_sent, quarterly_contribution, yearly_comparison,
\* top_ten_days, day summaries, manic, most_ignored, novelist, swears,
\* hangout, closing card
SlotOf(name) ==
  CHOOSE n \in 1..13 :
    <<"day_of_week", "monthly_messages", "avg_messages_sent",
      "quarterly_contribution", "yearly_comparison", "top_ten_days",
      "day_summaries", "manic", "most_ignored", "novelist", "swears",
      "hangout", "closing">>[n] = name

\* C15 as stated: at most one Series item per metric, the Series items in one
\* fixed priority order, then the DayGrid item, then the closing TextCard;
\* the DayGrid item never precedes a Series item.
C15_DayGridAfterAllSeries ==
  asmPc = "done" =>
    \A i \in 1..Len(asmOut) : \A j \in 1..Len(asmOut) :
      i < j =>
        /\ (IsSeries(asmOut[i]) /\ IsSeries(asmOut[j])) =>
             SlotOf(BlockOf(asmOut[i])) < SlotOf(BlockOf(asmOut[j]))
        /\ ~(asmOut[i].type = "SummaryGrid" /\ IsSeries(asmOut[j]))
        /\ asmOut[i].type # "TextSummaryCard"
        /\ asmOut[j].type = "SummaryGrid" => asmOut[i].type # "SummaryGrid"

\* C15: the items of the assembled sequence are in the order day_of_week,
\* monthly_messages, avg_messages_sent, quarterly_contribution,
\* yearly_comparison, top_ten_days, DayGrid, manic, most_ignored, novelist,
\* swears, hangout, closing TextCard, with at most one item per position:
\* the DayGrid item follows the top_ten_days item and precedes the Series
\* items of manic, most_ignored, novelist, swears and hangout.
C15_FixedOrderGridAfterTopTen ==
  asmPc = "done" =>
    \A i \in 1..Len(asmOut) : \A j \in 1..Len(asmOut) :
      i < j => SlotOf(BlockOf(asmOut[i])) < SlotOf(BlockOf(asmOut[j]))

\* a sequence with Series items on both sides of the DayGrid item
C15_Witness ==
  /\ asmPc = "done"
  /\ \E i \in 1..Len(asmOut) :
       /\ asmOut[i].type = "SummaryGrid"
       /\ \E h \in 1..(i - 1) : BlockOf(asmOut[h]) = "top_ten_days"
       /\ \E j \in (i + 1)..Len(asmOut) : BlockOf(asmOut[j]) = "manic"
  /\ asmOut[Len(asmOut)] = ClosingCard

\* positions of the Series items of the ranking metrics
RankingItems ==
  {i \in 1..Len(asmOut) : IsSeries(asmOut[i]) /\ BlockOf(asmOut[i]) \in SortedKeys}

\* the (label, value) pairs of the rows of metric key, in payload order
PairsOf(payload, key) ==
  [r \in 1..Len(payload[key].data) |->
     <<safeGet(payload[key].data[r], ChartSpec[key].labelField, ""),
       safeGet(payload[key].data[r], ChartSpec[key].valueField, 0)>>]

\* the (label, value) pairs of a Series item, in output order
PairsOut(item) ==
  [r \in 1..Len(item.labels) |-> <<item.labels[r], item.datasets[1].data[r]>>]

\* C17: in the Series item of top_ten_days and of every other ranking metric
\* the values are non-increasing and the (label, value) pairs are exactly
\* the pairs of the metric's rows, each as often as it occurs there.
C17_RankingDescendingPaired ==
  asmPc = "done" =>
    \A i \in RankingItems :
      LET item == asmOut[i]
          in   == PairsOf(asmIn, BlockOf(item))
          out  == PairsOut(item)
      IN /\ Len(item.datasets) = 1
         /\ Len(item.datasets[1].data) = Len(item.labels)
         /\ Len(out) = Len(in) /\ Len(in) > 0
         /\ \A a \in 1..Len(out) : \A b \in 1..Len(out) :
              a < b => out[a][2] >= out[b][2]
         /\ \A r \in 1..Len(in) :
              Cardinality({k \in 1..Len(out) : out[k] = in[r]}) =
              Cardinality({k \in 1..Len(in) : in[k] = in[r]})

\* the top_ten_days rows (a,1),(b,2) came out as labels b,a and values 2,1
C17_Witness ==
  /\ asmPc = "done"
  /\ \E i \in RankingItems :
       /\ BlockOf(asmOut[i]) = "top_ten_days"
       /\ PairsOf(asmIn, "top_ten_days") = <<<<"a", 1>>, <<"b", 2>>>>
       /\ asmOut[i].labels = <<"b", "a">>
       /\ asmOut[i].datasets[1].data = <<2, 1>>

\* C18: the Series item of a ranking metric is the stable descending sort of
\* the metric's rows: it lists the rows in an order in which values do not
\* increase and rows with equal values keep their payload order.
C18_RankingSortStable ==
  asmPc = "done" =>
    \A i \in RankingItems :
      LET in  == PairsOf(asmIn, BlockOf(asmOut[i]))
          out == PairsOut(asmOut[i])
          n   == Len(in)
      IN /\ Len(out) = n
         /\ \E pi \in [1..n -> 1..n] :
              /\ \A a \in 1..n : \A b \in 1..n : a # b => pi[a] # pi[b]
              /\ \A a \in 1..n : out[a] = in[pi[a]]
              /\ \A a \in 1..n : \A b \in 1..n :
                   a < b => \/ in[pi[a]][2] > in[pi[b]][2]
                            \/ in[pi[a]][2] = in[pi[b]][2] /\ pi[a] < pi[b]

\* two rows with equal values and different labels kept their payload order
C18_Witness ==
  /\ asmPc = "done"
  /\ \E i \in RankingItems :
       /\ PairsOf(asmIn, BlockOf(asmOut[i])) = <<<<"b", 1>>, <<"a", 1>>>>
       /\ asmOut[i].labels = <<"b", "a">>
       /\ asmOut[i].datasets[1].data = <<1, 1>>

\* the quarter a date string of the model names
QuarterOf(d) ==
  CHOOSE q \in 1..3 : <<"2024-Q1", "2024-Q2", "2024-Q3">>[q] = d

\* C19: the quarterly_contribution item has one series per distinct
\* non-empty sender; its x-axis is the set of distinct non-empty dates of
\* all rows in ascending order without duplicates; every series has one
\* value per x-axis date, the message_count of the sender's row for that date
\* (0 when the row has none) and 0 when the sender has no row for the date.
C19_GroupBySender ==
  asmPc = "done" =>
    \A i \in 1..Len(asmOut) :
      (IsSeries(asmOut[i]) /\ BlockOf(asmOut[i]) = "quarterly_contribution") =>
        LET item == asmOut[i]
            rows == asmIn["quarterly_contribution"].data
            senderOf(r) == safeGet(rows[r], "sender", "")
            dateOf(r)   == safeGet(rows[r], "date", "")
            senders == {senderOf(r) : r \in 1..Len(rows)} \ {""}
            dates   == {dateOf(r) : r \in 1..Len(rows)} \ {""}
        IN /\ Len(item.datasets) = Cardinality(senders)
           /\ {item.datasets[k].label : k \in 1..Len(item.datasets)} = senders
           /\ Len(item.labels) = Cardinality(dates)
           /\ {item.labels[d] : d \in 1..Len(item.labels)} = dates
           /\ \A a \in 1..Len(item.labels) : \A b \in 1..Len(item.labels) :
                a < b => QuarterOf(item.labels[a]) < QuarterOf(item.labels[b])
           /\ \A k \in 1..Len(item.datasets) :
                /\ Len(item.datasets[k].data) = Len(item.labels)
                /\ \A d \in 1..Len(item.labels) :
                     LET hits == {r \in 1..Len(rows) :
                                    /\ senderOf(r) = item.datasets[k].label
                                    /\ dateOf(r) = item.labels[d]}
                     IN IF hits = {} THEN item.datasets[k].data[d] = 0
                        ELSE \E r \in hits :
                               item.datasets[k].data[d] =
                                 safeGet(rows[r], "message_count", 0)

\* rows (bob, Q3, no count), (ann, Q1, 5): two series over the sorted axis
\* Q1, Q3, with 0 filled in where a sender has no row or no count
C19_Witness ==
  /\ asmPc = "done"
  /\ \E i \in 1..Len(asmOut) :
       /\ IsSeries(asmOut[i]) /\ BlockOf(asmOut[i]) = "quarterly_contribution"
       /\ safeGet(asmIn["quarterly_contribution"].data[1], "date", "") = "2024-Q3"
       /\ asmOut[i].labels = <<"2024-Q1", "2024-Q3">>
       /\ Len(asmOut[i].datasets) = 2
       /\ asmOut[i].datasets[1].label = "bob"
       /\ asmOut[i].datasets[1].data = <<0, 0>>
       /\ asmOut[i].datasets[2].data = <<5, 0>>

\* the payload holds metric key as an object with a row list
HasRows(payload, key) ==
  /\ HasField(payload, key)
  /\ payload[key].shape = "object"
  /\ HasField(payload[key], "data")

\* C20: every Series item has at least one label and at least one series,
\* each series with as many values as labels; a DayGrid item has at least
\* one entry and every entry a non-empty title and summary; a metric with an
\* empty row list, a quarterly metric without a usable sender or without a
\* usable date, and a day-summary list with no entry that has both a date
\* and a summary produce no item.
C20_NoEmptyItems ==
  (asmPc = "done" /\ IsObject(asmIn)) =>
    /\ \A i \in 1..Len(asmOut) :
         /\ IsSeries(asmOut[i]) =>
              /\ Len(asmOut[i].labels) >= 1
              /\ Len(asmOut[i].datasets) >= 1
              /\ \A k \in 1..Len(asmOut[i].datasets) :
                   Len(asmOut[i].datasets[k].data) = Len(asmOut[i].labels)
         /\ asmOut[i].type = "SummaryGrid" =>
              /\ Len(asmOut[i].summaries) >= 1
              /\ \A d \in 1..Len(asmOut[i].summaries) :
                   /\ asmOut[i].summaries[d].title # ""
                   /\ asmOut[i].summaries[d].summary # ""
    /\ \A key \in MetricKeys :
         (HasRows(asmIn, key) /\ Len(asmIn[key].data) = 0) =>
           ~\E i \in 1..Len(asmOut) : IsSeries(asmOut[i]) /\ BlockOf(asmOut[i]) = key
    /\ (/\ HasRows(asmIn, "quarterly_contribution")
        /\ LET rows == asmIn["quarterly_contribution"].data
           IN \/ \A r \in 1..Len(rows) : safeGet(rows[r], "sender", "") = ""
              \/ \A r \in 1..Len(rows) : safeGet(rows[r], "date", "") = "") =>
         ~\E i \in 1..Len(asmOut) :
            IsSeries(asmOut[i]) /\ BlockOf(asmOut[i]) = "quarterly_contribution"
    /\ (/\ HasField(asmIn, "top_ten_days")
        /\ asmIn["top_ten_days"].shape = "object"
        /\ HasField(asmIn["top_ten_days"], "day_summaries")
        /\ \A d \in 1..Len(asmIn["top_ten_days"].day_summaries) :
             LET dayData == asmIn["top_ten_days"].day_summaries[d]
             IN \/ DayThrows(dayData)
                \/ safeGet(dayData, "date", "") = ""
                \/ safeGet(dayData.content, "summary", "") = "") =>
         ~\E i \in 1..Len(asmOut) : asmOut[i].type = "SummaryGrid"

\* a quarterly metric whose only row has no sender left no item in a
\* sequence that holds the items of other metrics
C20_Witness ==
  /\ asmPc = "done" /\ IsObject(asmIn)
  /\ HasRows(asmIn, "quarterly_contribution")
  /\ Len(asmIn["quarterly_contribution"].data) = 1
  /\ safeGet(asmIn["quarterly_contribution"].data[1], "sender", "") = ""
  /\ ~\E i \in 1..Len(asmOut) :
        IsSeries(asmOut[i]) /\ BlockOf(asmOut[i]) = "quarterly_contribution"
  /\ \E i \in 1..Len(asmOut) : IsSeries(asmOut[i]) /\ BlockOf(asmOut[i]) = "hangout"
  /\ asmOut[Len(asmOut)] = ClosingCard

(***************************************************************************)
(* Properties of the selected year, the drawer and the debounce (checked   *)
(* under Spec and FairSpec).                                               *)
(***************************************************************************)
\* C21: whenever phase = visualize the held payload is the response to the
\* /analyze request made for the current selectedYear and transcript (the
\* step that stores a response stores the one whose request carried them,
\* and none of them changes while the phase stays visualize), and
\* selectedYear is an element of the availableYears list last reported.
C21_PayloadOfSelectedYear ==
  /\ [][\A msg \in net :
          (Consumed(msg) /\ msg.kind = "analyze" /\ msg.outcome = "ok") =>
            /\ msg.req.year = selectedYear'
            /\ msg.req.transcript = transcript']_vars
  /\ [][(phase = "visualize" /\ phase' = "visualize") =>
          UNCHANGED <<analysisData, selectedYear, transcript, availableYears>>]_vars
  /\ [](phase = "visualize" =>
          \E i \in 1..Len(availableYears) : availableYears[i] = selectedYear)

\* the chat_logs of the day entries of the DayGrid item assembled from payload
GridLogs(payload) ==
  LET chartDataSets == chartDataSetsOf(payload)
  IN UNION {{chartDataSets[i].summaries[d].chat_logs :
               d \in 1..Len(chartDataSets[i].summaries)} :
            i \in {k \in 1..Len(chartDataSets) : chartDataSets[k].type = "SummaryGrid"}}

\* C22: whenever the drawer is open in phase visualize, the logs it holds are
\* the chat_logs of a day entry of the DayGrid item assembled from the held
\* payload; the logs change, and the drawer opens, only to the chat_logs of
\* an entry of the rendered day grid, so a click outside the grid or without
\* a DayGrid item changes nothing.
C22_DrawerShowsCurrentLogs ==
  /\ []((phase = "visualize" /\ drawerOpen) => dayLogs \in GridLogs(analysisData))
  /\ [][(dayLogs' # dayLogs \/ (drawerOpen' /\ ~drawerOpen)) =>
          /\ drawerOpen'
          /\ dayLogs' \in GridLogs(view.analysisData)]_vars

\* C23: every debounce window that a step event opens, a step that does not
\* move the cursor included, has a pending expiry and is followed by a state
\* in which the flag is false both in the state and in the rendered view, so
\* that the next step event is handled again; an expiry changes nothing but
\* the flag, whatever happened since the step.
C23_DebounceWindowCloses ==
  /\ isScrolling ~> (~isScrolling /\ ~view.isScrolling)
  /\ [](isScrolling => timers > 0)
  /\ [][timers' < timers =>
          /\ isScrolling' = FALSE
          /\ UNCHANGED <<phase, connectionMethod, analysisData, availableYears,
                         selectedYear, selectedFile, transcript, currentChartIndex,
                         error, drawerOpen, dayLogs, view, net>>]_vars

\* a step at the last item has opened a window without moving the cursor
C23_Witness ==
  /\ isScrolling /\ ~view.isScrolling /\ timers = 1
  /\ Screen(view) = "charts"
  /\ Len(chartDataSetsOf(analysisData)) > 1
  /\ currentChartIndex = Len(chartDataSetsOf(analysisData)) - 1
  /\ view.currentChartIndex = currentChartIndex

====
